---- MODULE Spec2Model ----
(***************************************************************************)
(* A model of App::run (src/src/app.rs): the event/command dispatcher of    *)
(* taskwarrior-tui.  One action per step of the run loop: start-up, the     *)
(* awaited event with its classification and handle_events fan-out, one     *)
(* turn of the `while let Ok(command) = command_rx.try_recv()` drain, the   *)
(* end of the drain, and the three branches of the loop bottom.             *)
(*                                                                          *)
(* Components, the terminal backend and the configuration are trait objects *)
(* or other modules' values: what they return is a nondeterministic choice. *)
(***************************************************************************)
EXTENDS Integers, Sequences, FiniteSets, TLC

VARIABLES
  pc,                    \* position of run: start, await, drain, bottom, done, failed
  components,            \* App.components: which three components are registered
  config,                \* App.config (keybindings per Mode)
  mode,                  \* App.mode
  should_quit,           \* App.should_quit
  should_suspend,        \* App.should_suspend
  last_tick_key_events,  \* App.last_tick_key_events
  bus,                   \* the unbounded channel (command_tx, command_rx), oldest first
  tui,                   \* the backend held in `tui`: its instance and the last call made on it
  tuiLog,                \* history: the life-cycle calls on backends, <<call, instance, Ok?>>
  evFrom,                \* history: the instance whose next() the last Event came from
  iter,                  \* history: number of times tui.next() has been awaited
  ev,                    \* history: the value the last tui.next().await returned
  used,                  \* history: outputs of the "any" components so far
  started,               \* history: how many of the start-up calls were made
  sent,                  \* history: entries sent in (or carried into) this iteration, in order
  drainLog,              \* history: entries try_recv returned in this iteration, in order
  updLog,                \* history: update calls of this iteration, <<component, k>>: of
                         \*   the component, with the k-th command drained
  drawLog,               \* history: draw calls of this iteration, <<component, k, Ok?>>:
                         \*   in the pass of the k-th command drained
  failure,               \* history: the call whose Err run returned, None if none
  keysSinceTick          \* history: keys received since a Tick command was last drained

vars == <<pc, components, config, mode, should_quit, should_suspend, last_tick_key_events,
          bus, tui, tuiLog, evFrom, iter, ev, used, started, sent, drainLog, updLog, drawLog, failure,
          keysSinceTick>>

----------------------------------------------------------------------------
(* Bounds of the model *)

\* events awaited in one run
MaxEvents == 2
\* commands returned (handle_events, update) and draws failed by the "any"
\* components in one run
MaxOutputs == 1
\* turns of one drain that are followed with the "echo" components, whose drain
\* has no last turn
MaxTurns == 4

----------------------------------------------------------------------------
(* Data *)

\* Option::None, of an Option<Command> or an Option<Event>
None == <<"None">>

Tick == <<"Tick">>
Render == <<"Render">>
Quit == <<"Quit">>
Suspend == <<"Suspend">>
Resume == <<"Resume">>
Resize(x, y) == <<"Resize", x, y>>
Error(text) == <<"Error", text>>
\* a component-specific Command variant, without built-in effect
Custom(n) == <<"Custom", n>>

\* the registered components, in registration order
Components == <<"A", "B", "C">>
N == Len(Components)
Comps == 1..N

Mode == {"TaskReport", "TaskContext", "Calendar", "Error"}

Keys == {"q", "g", "x"}

\* the events tui.next() yields; Other stands for the variants run does not match
\* (Init, Error, FocusGained, Mouse, ...)
KeyEv(k) == <<"Key", k>>
Events == {<<"Quit">>, <<"Tick">>, <<"Render">>, <<"Resize", 80, 24>>, <<"Other">>}
            \cup {KeyEv(k) : k \in Keys}

\* What a component returns is its own business.  The model runs with one of two
\* component sets.  "any": each component may return one command of its own from
\* handle_events and one from update, to any event or command, and any draw may
\* fail, MaxOutputs times in a run altogether.  "abc": three stubs; stub c may
\* answer the update for a command that came from an event with Custom(c), its
\* draw may fail, and it returns no command otherwise.  In both sets every call
\* that can return Err may do so.
ComponentSets == {"any", "abc"}
\* "echo": the pathological set.  update of component A returns a command for
\* every command it is given; B and C return none; handle_events returns none.
PathologicalSets == {"abc", "echo"}
EventCmdOf(c) == IF c = 1 THEN Tick ELSE IF c = 2 THEN Quit ELSE Custom(Components[c])
UpdateCmdOf(c) == IF c = 1 THEN Render ELSE IF c = 2 THEN Suspend ELSE Resume
StubCmdOf(c) == Custom(Components[c])

\* a keymap of the configuration: key sequences to Commands
BoundKeymap == (<<"q">> :> Quit) @@ (<<"g">> :> Suspend) @@ (<<"g", "g">> :> Custom("gg"))

\* the configurations Config::new() may load: one binding keys in TaskReport, one
\* holding no keymap at all
Configs == { [keybindings |-> ("TaskReport" :> BoundKeymap)],
             [keybindings |-> <<>>] }

\* a bus entry: the Command, with who sent it and in which iteration (history)
Entry(cmd, src, by, it) == [cmd |-> cmd, src |-> src, by |-> by, it |-> it]

RECURSIVE Tagged(_, _, _, _)
\* the entries for the commands components 1..upTo returned; r[c] = None is no command
Tagged(r, src, upTo, it) ==
  IF upTo = 0 THEN <<>>
  ELSE Tagged(r, src, upTo - 1, it)
       \o (IF r[upTo] = None THEN <<>> ELSE <<Entry(r[upTo], src, upTo, it)>>)

Count(r, upTo) == Cardinality({c \in 1..upTo : r[c] # None})

----------------------------------------------------------------------------
(* The channel *)

\* a faulty forwarding: what the components return is dropped, not sent
ForwardedNone(x, src, it) == <<>>

\* lines 87-91 and 117-121: the commands sent for the components' returns
Forwarded(x, src, it) == Tagged(x.r, src, IF x.failAt = 0 THEN N ELSE x.failAt - 1, it)

\* a faulty send: a stack, the new entries overtake the waiting ones
SendFront(b, entries) == entries \o b

\* command_tx.send(..) for each of `entries`, in order
Send(b, entries) == b \o entries

\* command_rx.try_recv(): the oldest entry
TryRecv(b) == Head(b)
AfterRecv(b) == Tail(b)

----------------------------------------------------------------------------
(* Start-up: lines 51-68 *)

\* a faulty start-up: the init calls come before the config handlers
StartCallsInitFirst ==
  << <<"Tui::new", 0>>, <<"enter", 0>> >>
  \o [c \in Comps |-> <<"register_command_handler", c>>]
  \o [c \in Comps |-> <<"init", c>>]
  \o [c \in Comps |-> <<"register_config_handler", c>>]

\* lines 53-68: the calls of start-up that can return Err, in order
StartCalls ==
  << <<"Tui::new", 0>>, <<"enter", 0>> >>
  \o [c \in Comps |-> <<"register_command_handler", c>>]
  \o [c \in Comps |-> <<"register_config_handler", c>>]
  \o [c \in Comps |-> <<"init", c>>]

\* the start-up calls made so far, in order
StartLog(n) == SubSeq(StartCalls, 1, n)

NewTui(inst) == [inst |-> inst, last |-> "new"]

\* a faulty scope: the backend is leaked (mem::forget, process::exit), not dropped
ScopeEndLeaks(log, t) == log

\* run returns, by `?` or at line 136, and the local `tui` goes out of scope: the
\* backend it holds, if any, is dropped
ScopeEnd(log, t) == IF t.last = "none" THEN log ELSE Append(log, <<"drop", t.inst, TRUE>>)

\* lines 53-56: the life-cycle calls of start-up, given the call that failed
StartupLog(failAt) ==
  IF failAt = 1 THEN << <<"Tui::new", 1, FALSE>> >>
  ELSE << <<"Tui::new", 1, TRUE>>, <<"enter", 1, failAt # 2>> >>

\* failAt = 0: every call succeeded; failAt = k: the k-th call returned Err
Startup ==
  /\ pc = "start"
  /\ \E failAt \in 0..Len(StartCalls) :
       /\ started' = IF failAt = 0 THEN Len(StartCalls) ELSE failAt
       /\ tui' = IF failAt = 1 THEN tui
                 ELSE IF failAt = 2 THEN NewTui(1)
                 ELSE [inst |-> 1, last |-> "enter"]
       /\ tuiLog' = IF failAt = 0 THEN StartupLog(failAt)
                    ELSE ScopeEnd(StartupLog(failAt), tui')
       /\ pc' = IF failAt = 0 THEN "await" ELSE "failed"
       /\ failure' = IF failAt = 0 THEN None ELSE StartCalls[failAt]
  /\ UNCHANGED <<components, config, mode, should_quit, should_suspend,
                 last_tick_key_events, bus, evFrom, iter, ev, used, sent, drainLog, updLog,
                 drawLog, keysSinceTick>>

----------------------------------------------------------------------------
(* The awaited event: lines 71-92 *)

\* a faulty mapping: the payload of Resize is swapped
DirectCommandSwapped(e) ==
  IF e[1] = "Quit" THEN <<Quit>>
  ELSE IF e[1] = "Tick" THEN <<Tick>>
  ELSE IF e[1] = "Render" THEN <<Render>>
  ELSE IF e[1] = "Resize" THEN <<Resize(e[3], e[2])>>
  ELSE <<>>

\* lines 73-76: the events that map directly to a Command
DirectCommand(e) ==
  IF e[1] = "Quit" THEN <<Quit>>
  ELSE IF e[1] = "Tick" THEN <<Tick>>
  ELSE IF e[1] = "Render" THEN <<Render>>
  ELSE IF e[1] = "Resize" THEN <<Resize(e[2], e[3])>>
  ELSE <<>>

\* line 78
PushKey(hist, e) == IF e[1] = "Key" THEN Append(hist, e[2]) ELSE hist

\* a faulty lookup: of the last key alone, not of the whole history
KeymapGetLastKey(cfg, m, hist) ==
  IF m \in DOMAIN cfg.keybindings /\ hist # <<>>
  THEN LET keymap == cfg.keybindings[m]
           last   == <<hist[Len(hist)]>>
       IN  IF last \in DOMAIN keymap THEN <<keymap[last]>> ELSE <<>>
  ELSE <<>>

\* a faulty lookup: of the longest bound suffix of the history
KeymapGetSuffix(cfg, m, hist) ==
  IF m \in DOMAIN cfg.keybindings
  THEN LET keymap == cfg.keybindings[m]
           from   == {n \in 1..Len(hist) : SubSeq(hist, n, Len(hist)) \in DOMAIN keymap}
       IN  IF from = {} THEN <<>>
           ELSE <<keymap[SubSeq(hist, CHOOSE n \in from : \A o \in from : n <= o,
                                Len(hist))]>>
  ELSE <<>>

\* lines 79-80: config.keybindings.get(&mode) and then keymap.get(&history)
KeymapGet(cfg, m, hist) ==
  IF m \in DOMAIN cfg.keybindings
  THEN LET keymap == cfg.keybindings[m]
       IN  IF hist \in DOMAIN keymap THEN <<keymap[hist]>> ELSE <<>>
  ELSE <<>>

\* lines 72-86: the commands the match on the event sends; hist is the history
\* after the push
Classify(e, cfg, m, hist) ==
  IF e[1] = "Key" THEN KeymapGet(cfg, m, hist) ELSE DirectCommand(e)

\* what the components return from one round of handle_events or update calls:
\* r[c] the Option<Command> of component c, failAt the component whose call
\* returned Err (0: none did; the components after it are not called)
AllReturns(kind) ==
  LET cmdOf(c) == CASE kind = "handle_events" -> EventCmdOf(c)
                    [] kind = "update" -> UpdateCmdOf(c)
                    [] kind = "stub" -> StubCmdOf(c)
                    [] OTHER -> None
      \* the components whose call returned Ok, when that of failAt returned Err
      ok(failAt) == IF failAt = 0 THEN Comps ELSE 1..(failAt - 1)
  IN  UNION { { [r |-> [c \in Comps |-> IF c \in some THEN cmdOf(c) ELSE None],
                 failAt |-> failAt] : some \in SUBSET ok(failAt) } : failAt \in 0..N }

HandleReturns == AllReturns("handle_events")
UpdateReturns == AllReturns("update")
StubReturns == AllReturns("stub")
NoReturns == AllReturns("none")

\* update of the "echo" components: A returns a command, B and C none; the update
\* of B or C may return Err
EchoReturns ==
  { x \in StubReturns : x.failAt # 1 /\ x.r[1] # None /\ \A c \in Comps \ {1} : x.r[c] = None }

\* the returns of handle_events(event) of the components
HandleOutcomes(comps, budget) ==
  IF comps = "any" THEN { x \in HandleReturns : Count(x.r, N) <= budget } ELSE NoReturns

\* the returns of update(entry.cmd) of the components
UpdateOutcomes(comps, entry, budget) ==
  IF comps = "any" THEN { x \in UpdateReturns : Count(x.r, N) <= budget }
  ELSE IF comps = "echo" THEN EchoReturns
  ELSE IF entry.src = "classify" THEN StubReturns ELSE NoReturns

\* the sets of components whose draw may return Err in one pass
DrawFailures(comps, budget) ==
  IF comps = "any" THEN { f \in SUBSET Comps : Cardinality(f) <= budget } ELSE SUBSET Comps

\* the part of their budget that n outputs of the "any" components use up
Cost(comps, n) == IF comps = "any" THEN n ELSE 0

\* the components called: all of them, or those up to the one that failed
Called(x) == IF x.failAt = 0 THEN N ELSE x.failAt

ClassEntries(cmds, it) == [i \in 1..Len(cmds) |-> Entry(cmds[i], "classify", 0, it)]

NextEvent ==
  /\ pc = "await"
  /\ iter < MaxEvents
  /\ iter' = iter + 1
  /\ evFrom' = tui.inst
  /\ \/ \* tui.next() yields None: straight to the drain
        /\ ev' = None
        /\ pc' = "drain"
        /\ UNCHANGED <<last_tick_key_events, keysSinceTick, bus, sent, used, failure,
                       tuiLog>>
     \/ \E e \in Events, x \in HandleOutcomes(components, MaxOutputs - used) :
          LET hist == PushKey(last_tick_key_events, e)
              new  == ClassEntries(Classify(e, config, mode, hist), iter + 1)
                      \o Forwarded(x, "handle_events", iter + 1)
          IN  /\ ev' = e
              /\ last_tick_key_events' = hist
              /\ keysSinceTick' = IF e[1] = "Key" THEN Append(keysSinceTick, e[2])
                                  ELSE keysSinceTick
              /\ bus' = Send(bus, new)
              /\ sent' = sent \o new
              /\ used' = used + Cost(components, Count(x.r, N))
              /\ pc' = IF x.failAt = 0 THEN "drain" ELSE "failed"
              /\ failure' = IF x.failAt = 0 THEN None ELSE <<"handle_events", x.failAt>>
              /\ tuiLog' = IF x.failAt = 0 THEN tuiLog ELSE ScopeEnd(tuiLog, tui)
  /\ UNCHANGED <<components, config, mode, should_quit, should_suspend, tui, started,
                 drainLog, updLog, drawLog>>

----------------------------------------------------------------------------
(* One turn of the drain loop: lines 94-122 *)

\* faulty variants: Tick keeps the history; Render clears it too
BuiltinHistoryKeeps(cmd, hist) == hist
BuiltinHistoryRenderClears(cmd, hist) == IF cmd \in {Tick, Render} THEN <<>> ELSE hist

\* lines 99-101
BuiltinHistory(cmd, hist) == IF cmd = Tick THEN <<>> ELSE hist

\* a faulty variant: Resume clears should_quit too
BuiltinQuitResumeClears(cmd, q) ==
  IF cmd = Quit THEN TRUE ELSE IF cmd = Resume THEN FALSE ELSE q

\* line 102
BuiltinQuit(cmd, q) == IF cmd = Quit THEN TRUE ELSE q

\* a faulty variant: Resume does not clear the flag
BuiltinSuspendNoResume(cmd, s) == IF cmd = Suspend THEN TRUE ELSE s

\* a faulty variant: Resume flips the flag
BuiltinSuspendToggle(cmd, s) ==
  IF cmd = Suspend THEN TRUE ELSE IF cmd = Resume THEN ~s ELSE s

\* lines 103-104
BuiltinSuspend(cmd, s) ==
  IF cmd = Suspend THEN TRUE ELSE IF cmd = Resume THEN FALSE ELSE s

\* a faulty pass: it stops at the first draw that returns Err
DrawnUntilFailure(fails) ==
  [c \in 1..(IF fails = {} THEN N ELSE CHOOSE f \in fails : \A g \in fails : f <= g) |-> c]

\* lines 107-112: the components whose draw the closure calls, in order, given
\* those whose draw returns Err
Drawn(fails) == [c \in Comps |-> c]

RECURSIVE DrawErrors(_, _, _)
\* line 110: one Error per failing draw, in the order of the calls
DrawErrors(drawn, fails, it) ==
  IF drawn = <<>> THEN <<>>
  ELSE LET c == drawn[Len(drawn)]
       IN  DrawErrors(SubSeq(drawn, 1, Len(drawn) - 1), fails, it)
           \o (IF c \in fails THEN <<Entry(Error(Components[c]), "draw", c, it)>> ELSE <<>>)

\* lines 105-114: what tui.draw does. backend "ok": the closure ran and draw
\* returned Ok; "err_before": the backend failed before calling the closure;
\* "err_after": it failed after the closure returned; "none": not a Render
DrawOutcomes(comps, cmd, budget) ==
  IF cmd = Render
  THEN { [fails |-> f, backend |-> b] :
           f \in DrawFailures(comps, budget), b \in {"ok", "err_after"} }
       \cup { [fails |-> {}, backend |-> "err_before"] }
  ELSE { [fails |-> {}, backend |-> "none"] }

\* a faulty drain: it stops at the first command that was sent during the drain
DrainDoneAtFollowUp(b) == IF b = <<>> THEN TRUE ELSE Head(b).src \in {"update", "draw"}

\* line 94: `while let Ok(command) = command_rx.try_recv()` ends when the channel
\* is empty
DrainDone(b) == b = <<>>

\* a faulty drain: `if let` for `while let`, one command in an iteration
DrainLoopPcOnce == "bottom"

\* line 94 back from line 122: after a command the loop tries to receive again
DrainLoopPc == "drain"

\* a faulty turn: the drain is left as soon as Quit has been handled
TurnEndsOnQuit(cmd, failAt) ==
  IF failAt # 0 THEN "failed" ELSE IF cmd = Quit THEN "bottom" ELSE DrainLoopPc

\* lines 117-122: where run is after the turn for cmd; failAt is the component
\* whose update returned Err, 0 if none did
TurnEnds(cmd, failAt) == IF failAt # 0 THEN "failed" ELSE DrainLoopPc

DrainOne ==
  /\ pc = "drain"
  /\ ~DrainDone(bus)
  /\ components = "echo" => Len(drainLog) < MaxTurns
  /\ LET entry == TryRecv(bus)
         cmd   == entry.cmd
         k     == Len(drainLog) + 1
     IN  /\ drainLog' = Append(drainLog, entry)
         /\ last_tick_key_events' = BuiltinHistory(cmd, last_tick_key_events)
         /\ keysSinceTick' = IF cmd = Tick THEN <<>> ELSE keysSinceTick
         /\ should_quit' = BuiltinQuit(cmd, should_quit)
         /\ should_suspend' = BuiltinSuspend(cmd, should_suspend)
         /\ \E d \in DrawOutcomes(components, cmd, MaxOutputs - used) :
              LET drawn  == IF d.backend \in {"ok", "err_after"} THEN Drawn(d.fails) ELSE <<>>
                  errors == DrawErrors(drawn, d.fails, iter)
                  nfail  == Len(errors)
              IN  /\ drawLog' = drawLog \o [i \in 1..Len(drawn) |->
                                             <<drawn[i], k, drawn[i] \notin d.fails>>]
                  /\ IF d.backend \in {"err_before", "err_after"}
                     THEN \* tui.draw(..)? returns the error from run
                          /\ bus' = Send(AfterRecv(bus), errors)
                          /\ sent' = sent \o errors
                          /\ used' = used + Cost(components, nfail)
                          /\ pc' = "failed"
                          /\ failure' = <<"Tui::draw", 0>>
                          /\ tuiLog' = ScopeEnd(tuiLog, tui)
                          /\ UNCHANGED updLog
                     ELSE \E x \in UpdateOutcomes(components, entry, MaxOutputs - used - nfail) :
                            LET new == errors \o Forwarded(x, "update", iter)
                            IN  /\ updLog' = updLog \o [c \in 1..Called(x) |-> <<c, k>>]
                                /\ bus' = Send(AfterRecv(bus), new)
                                /\ sent' = sent \o new
                                /\ used' = used + Cost(components, nfail + Count(x.r, N))
                                /\ pc' = TurnEnds(cmd, x.failAt)
                                /\ failure' = IF x.failAt = 0 THEN None
                                              ELSE <<"update", x.failAt>>
                                /\ tuiLog' = IF x.failAt = 0 THEN tuiLog
                                             ELSE ScopeEnd(tuiLog, tui)
  /\ UNCHANGED <<components, config, mode, tui, evFrom, iter, ev, started>>

\* line 94: try_recv returns Err(Empty) and the while loop ends
DrainEmpty ==
  /\ pc = "drain"
  /\ DrainDone(bus)
  /\ pc' = "bottom"
  /\ UNCHANGED <<components, config, mode, should_quit, should_suspend,
                 last_tick_key_events, bus, tui, tuiLog, evFrom, iter, ev, used, started,
                 sent, drainLog, updLog, drawLog, failure, keysSinceTick>>

----------------------------------------------------------------------------
(* The loop bottom: lines 123-136 *)

\* a faulty bottom: should_quit is not looked at
BottomBranchNoQuit(suspend, quit) == IF suspend THEN "suspend" ELSE "continue"

\* a faulty bottom: should_quit is looked at first
BottomBranchQuitFirst(suspend, quit) ==
  IF quit THEN "quit" ELSE IF suspend THEN "suspend" ELSE "continue"

\* lines 123 and 130: the branch taken
BottomBranch(suspend, quit) ==
  IF suspend THEN "suspend" ELSE IF quit THEN "quit" ELSE "continue"

\* a faulty cycle: no Resume is sent
CycleResumeMissing(it) == <<>>

\* line 125: command_tx.send(Command::Resume)
CycleResume(it) == <<Entry(Resume, "suspend", 0, it)>>

\* a faulty cycle: the fresh backend is created and entered first, the old one
\* suspended after that
CycleLogEnterFirst(inst, fail) ==
  IF fail = "Tui::new" THEN << <<"Tui::new", inst + 1, FALSE>> >>
  ELSE IF fail = "enter" THEN << <<"Tui::new", inst + 1, TRUE>>, <<"enter", inst + 1, FALSE>>,
                                 <<"drop", inst + 1, TRUE>> >>
  ELSE << <<"Tui::new", inst + 1, TRUE>>, <<"enter", inst + 1, TRUE>>,
          <<"suspend", inst, fail # "suspend">>, <<"drop", inst, TRUE>> >>

\* lines 124-129: the life-cycle calls of a suspend cycle on the backend `inst`,
\* up to the call that failed; the assignment of line 126 drops the old backend
CycleLog(inst, fail) ==
  IF fail = "suspend" THEN << <<"suspend", inst, FALSE>> >>
  ELSE IF fail = "Tui::new" THEN << <<"suspend", inst, TRUE>>, <<"Tui::new", inst + 1, FALSE>> >>
  ELSE << <<"suspend", inst, TRUE>>, <<"Tui::new", inst + 1, TRUE>>, <<"drop", inst, TRUE>>,
          <<"enter", inst + 1, fail # "enter">> >>

\* lines 124-129.  fail names the call that returned Err, "none" if none did
SuspendCycle ==
  /\ pc = "bottom"
  /\ BottomBranch(should_suspend, should_quit) = "suspend"
  /\ \E fail \in {"none", "suspend", "Tui::new", "enter"} :
       LET resume == CycleResume(iter)
       IN  /\ tui' = IF fail = "suspend" THEN tui
                     ELSE IF fail = "Tui::new" THEN [tui EXCEPT !.last = "suspend"]
                     ELSE IF fail = "enter" THEN NewTui(tui.inst + 1)
                     ELSE [inst |-> tui.inst + 1, last |-> "enter"]
           /\ tuiLog' = IF fail = "none" THEN tuiLog \o CycleLog(tui.inst, fail)
                        ELSE ScopeEnd(tuiLog \o CycleLog(tui.inst, fail), tui')
           /\ bus' = IF fail = "suspend" THEN bus ELSE Send(bus, resume)
           /\ pc' = IF fail = "none" THEN "await" ELSE "failed"
           /\ failure' = IF fail = "none" THEN None ELSE <<fail, 0>>
           /\ sent' = IF fail = "none" THEN resume
                      ELSE IF fail = "suspend" THEN sent ELSE sent \o resume
           /\ drainLog' = IF fail = "none" THEN <<>> ELSE drainLog
           /\ updLog' = IF fail = "none" THEN <<>> ELSE updLog
           /\ drawLog' = IF fail = "none" THEN <<>> ELSE drawLog
  /\ UNCHANGED <<components, config, mode, should_quit, should_suspend,
                 last_tick_key_events, evFrom, iter, ev, used, started, keysSinceTick>>

\* lines 131 and 135: the life-cycle calls of the exit, up to the call that failed
ExitLog(inst, fail) ==
  IF fail = "stop" THEN << <<"stop", inst, FALSE>> >>
  ELSE << <<"stop", inst, TRUE>>, <<"exit", inst, fail # "exit">> >>

\* lines 130-136: tui.stop()?, break, tui.exit()?, Ok(())
QuitExit ==
  /\ pc = "bottom"
  /\ BottomBranch(should_suspend, should_quit) = "quit"
  /\ \E fail \in {"none", "stop", "exit"} :
       /\ tui' = IF fail = "stop" THEN tui
                 ELSE IF fail = "exit" THEN [tui EXCEPT !.last = "stop"]
                 ELSE [tui EXCEPT !.last = "exit"]
       /\ tuiLog' = ScopeEnd(tuiLog \o ExitLog(tui.inst, fail), tui)
       /\ pc' = IF fail = "none" THEN "done" ELSE "failed"
       /\ failure' = IF fail = "none" THEN None ELSE <<fail, 0>>
  /\ UNCHANGED <<components, config, mode, should_quit, should_suspend,
                 last_tick_key_events, bus, evFrom, iter, ev, used, started, sent, drainLog, updLog,
                 drawLog, keysSinceTick>>

\* neither flag is set: back to line 71
Continue ==
  /\ pc = "bottom"
  /\ BottomBranch(should_suspend, should_quit) = "continue"
  /\ pc' = "await"
  /\ sent' = <<>>
  /\ drainLog' = <<>>
  /\ updLog' = <<>>
  /\ drawLog' = <<>>
  /\ UNCHANGED <<components, config, mode, should_quit, should_suspend,
                 last_tick_key_events, bus, tui, tuiLog, evFrom, iter, ev, used, started,
                 failure, keysSinceTick>>

----------------------------------------------------------------------------
(* The specification *)

\* App::new (lines 34-48), before run is called
Init ==
  /\ pc = "start"
  /\ components \in ComponentSets
  /\ config \in Configs
  /\ mode = "TaskReport"
  /\ should_quit = FALSE
  /\ should_suspend = FALSE
  /\ last_tick_key_events = <<>>
  /\ bus = <<>>
  /\ tui = [inst |-> 0, last |-> "none"]
  /\ tuiLog = <<>>
  /\ evFrom = 0
  /\ iter = 0
  /\ ev = None
  /\ used = 0
  /\ started = 0
  /\ sent = <<>>
  /\ drainLog = <<>>
  /\ updLog = <<>>
  /\ drawLog = <<>>
  /\ failure = None
  /\ keysSinceTick = <<>>

Next ==
  \/ Startup
  \/ NextEvent
  \/ DrainOne
  \/ DrainEmpty
  \/ SuspendCycle
  \/ QuitExit
  \/ Continue

Spec == Init /\ [][Next]_vars

\* run does not stop between two steps; the backend keeps delivering Events (as
\* many as the model follows)
FairSpec == Init /\ [][Next]_vars /\ WF_vars(Next)

\* App::new with the stub components or with the pathological ones
PathologicalInit ==
  /\ pc = "start"
  /\ components \in PathologicalSets
  /\ config \in Configs
  /\ mode = "TaskReport"
  /\ should_quit = FALSE
  /\ should_suspend = FALSE
  /\ last_tick_key_events = <<>>
  /\ bus = <<>>
  /\ tui = [inst |-> 0, last |-> "none"]
  /\ tuiLog = <<>>
  /\ evFrom = 0
  /\ iter = 0
  /\ ev = None
  /\ used = 0
  /\ started = 0
  /\ sent = <<>>
  /\ drainLog = <<>>
  /\ updLog = <<>>
  /\ drawLog = <<>>
  /\ failure = None
  /\ keysSinceTick = <<>>

PathologicalSpec == PathologicalInit /\ [][Next]_vars /\ WF_vars(Next)

----------------------------------------------------------------------------
(* Properties *)

Idx(s) == 1..Len(s)
Hist == last_tick_key_events

\* the Resume a suspend cycle sent
IsCycleResume(e) == e.src = "suspend" /\ e.cmd = Resume
IsDrawError(e) == e.src = "draw"
IsFollowUp(e) == e.src = "update"
\* an entry the classification of the last event sent
FromEvent(e) == e.src = "classify" /\ e.it = iter
FailedDraw(d) == ~d[3]
\* this step is a turn of the drain loop
DrainTurn == pc = "drain" /\ bus # <<>>

\* C1, as stated: when the dispatcher awaits the next Event after a suspend cycle,
\* should_suspend is false.
C1_ClearedBeforeAwait ==
  (pc = "await" /\ sent # <<>> /\ IsCycleResume(sent[1])) => ~should_suspend

\* C1, amended: after a suspend cycle (backend suspended, Resume sent, a fresh
\* backend created and entered) the next Event is awaited with should_suspend still
\* true and the Resume waiting in the bus; the Resume is the first command drained
\* after that Event, and draining it makes should_suspend false.
C1_ClearedByResumeAfterAwait ==
  /\ (pc = "await" /\ sent # <<>>) =>
       /\ sent = <<Entry(Resume, "suspend", 0, iter)>>
       /\ bus = sent
       /\ should_suspend
       /\ tui.inst > 1 /\ tui.last = "enter"
  /\ (pc = "await" /\ sent = <<>>) => ~should_suspend
  /\ (sent # <<>> /\ sent[1].it < iter /\ drainLog # <<>>) =>
       /\ IsCycleResume(drainLog[1])
       /\ drainLog[1] = sent[1]
       /\ Len(drainLog) = 1 => ~should_suspend

C1_Witness ==
  /\ pc = "bottom" /\ ev # None
  /\ drainLog # <<>> /\ IsCycleResume(drainLog[1])
  /\ ~should_suspend

\* C2, as stated: an Error sent for a failing draw is not drained in the drain pass
\* that drained the Render, only in a later iteration.
C2_ErrorLeftForNextIteration ==
  \A i \in Idx(drainLog) : IsDrawError(drainLog[i]) => drainLog[i].it < iter

\* C2, amended: an Error sent for a failing draw goes behind the commands already
\* in the bus and is drained in the same drain pass as the Render, before the loop
\* bottom is reached; none is left for the next iteration.
C2_ErrorDrainedInSamePass ==
  /\ \A i \in Idx(drainLog) : IsDrawError(drainLog[i]) => drainLog[i].it = iter
  /\ pc \in {"bottom", "await", "done"} => \A i \in Idx(bus) : ~IsDrawError(bus[i])
  /\ LET all == drainLog \o bus
     IN  \A i \in Idx(all) :
           IsDrawError(all[i]) =>
             /\ all[i].cmd = Error(Components[all[i].by])
             /\ \E j \in 1..(i - 1) : all[j].cmd = Render /\ j <= Len(drainLog)

C2_Witness ==
  /\ pc = "bottom"
  /\ \E i \in Idx(drainLog) : IsDrawError(drainLog[i])

\* a Quit the keymap resolved the key history to
KeyQuit(e) == ev[1] = "Key" /\ FromEvent(e) /\ e.cmd = Quit

\* C3, as stated: once the Quit a Key event resolved to is drained, should_quit is
\* true, no Render is drained (no draw pass runs) after it, and no further Event is
\* awaited unless should_suspend is true.
C3_NoRenderAfterKeyQuit ==
  /\ \A i \in Idx(drainLog) :
       KeyQuit(drainLog[i]) =>
         /\ should_quit
         /\ \A j \in (i + 1)..Len(drainLog) : drainLog[j].cmd # Render
  /\ (pc = "await" /\ should_quit) => should_suspend

\* C3, amended: once the Quit a Key event resolved to is drained, should_quit is
\* true; the loop exits at the bottom of that iteration, without awaiting a further
\* Event, unless should_suspend is true there; a Render drained after that Quit is
\* one a component returned in the same iteration, never one from an Event.
C3_KeyQuitExitsWithoutAwait ==
  /\ \A i \in Idx(drainLog) :
       KeyQuit(drainLog[i]) =>
         /\ should_quit
         /\ \A j \in (i + 1)..Len(drainLog) :
              drainLog[j].cmd = Render =>
                /\ drainLog[j].src \in {"handle_events", "update"}
                /\ drainLog[j].it = iter
  /\ (pc = "await" /\ should_quit) => should_suspend
  /\ pc = "done" => (should_quit /\ ~should_suspend)

C3_Witness ==
  /\ pc = "done"
  /\ \E i \in Idx(drainLog) : KeyQuit(drainLog[i])

\* C4: in a draw pass every component's draw is called once, in registration order,
\* whether or not earlier draws failed; the Errors sent are exactly one for each
\* failing draw, in the order of the calls; no failing draw ends run.
C4_DrawPassComplete ==
  /\ Len(drawLog) % N = 0
  /\ \A i \in Idx(drawLog) :
       /\ drawLog[i][1] = ((i - 1) % N) + 1
       /\ drawLog[i][2] \in Idx(drainLog)
       /\ drainLog[drawLog[i][2]].cmd = Render
       /\ \A j \in Idx(drawLog) :
            drawLog[j][2] = drawLog[i][2] <=> (j - 1) \div N = (i - 1) \div N
  /\ LET errs == SelectSeq(sent, IsDrawError)
         bad  == SelectSeq(drawLog, FailedDraw)
     IN  /\ Len(errs) = Len(bad)
         /\ \A i \in Idx(errs) :
              /\ errs[i].cmd = Error(Components[bad[i][1]])
              /\ errs[i].by = bad[i][1]
  /\ failure[1] \in {"None", "Tui::new", "enter", "register_command_handler",
                     "register_config_handler", "init", "handle_events", "update",
                     "Tui::draw", "suspend", "stop", "exit"}

C4_Witness ==
  /\ pc = "bottom"
  /\ \E i \in Idx(drawLog) :
       /\ drawLog[i][1] = 1 /\ ~drawLog[i][3]
       /\ ~drawLog[i + 1][3]
       /\ drawLog[i + 2][3]
  /\ Len(SelectSeq(drainLog, IsDrawError)) = 2

\* C5: delivery order is send order; the follow-ups the components return for one
\* drained command are sent in registration order (A, B, C); and when the bus is
\* empty every command drained in the iteration, follow-ups included, has been
\* given to update of every component, in drain order and registration order.
C5_BreadthFirst ==
  /\ [](sent = drainLog \o bus)
  /\ [](pc = "bottom" =>
          /\ Len(updLog) = N * Len(drainLog)
          /\ \A k \in Idx(drainLog), c \in Comps :
               updLog[(k - 1) * N + c] = <<c, k>>)
  /\ [][(Len(sent') > Len(sent) /\ SubSeq(sent', 1, Len(sent)) = sent) =>
          LET new == SubSeq(sent', Len(sent) + 1, Len(sent'))
          IN  \A i, j \in Idx(new) :
                (i < j /\ new[i].src = new[j].src) => new[i].by < new[j].by]_vars

C5_Witness ==
  /\ pc = "bottom"
  /\ Len(drainLog) = 4
  /\ FromEvent(drainLog[1])
  /\ \A c \in Comps : /\ IsFollowUp(drainLog[c + 1])
                      /\ drainLog[c + 1].by = c
                      /\ drainLog[c + 1].cmd = Custom(Components[c])
  /\ \A k \in 2..4, c \in Comps : updLog[(k - 1) * N + c] = <<c, k>>

\* C6: when the loop bottom is reached the bus is empty: every command sent in the
\* iteration, those sent during the drain included, has been drained in it.
C6_BusEmptyAtBottom ==
  pc = "bottom" =>
    /\ bus = <<>>
    /\ drainLog = sent
    /\ \A i \in Idx(sent) : sent[i].it = iter \/ (i = 1 /\ IsCycleResume(sent[i]))

C6_Witness ==
  /\ pc = "bottom"
  /\ \E i \in Idx(drainLog) : IsFollowUp(drainLog[i])
  /\ \E i \in Idx(drainLog) : IsDrawError(drainLog[i])

\* C7: the key history is, in order, the keys received since a Tick command was
\* last drained; it changes only by the push of a received key and by the clearing
\* of a drained Tick.
C7_HistoryIsKeysSinceTick ==
  /\ [](Hist = keysSinceTick)
  /\ [][Hist' # Hist =>
          \/ pc = "await" /\ ev'[1] = "Key" /\ Hist' = Append(Hist, ev'[2])
          \/ DrainTurn /\ Head(bus).cmd = Tick /\ Hist' = <<>>]_vars

C7_Witness ==
  /\ pc = "bottom"
  /\ ev[1] = "Key"
  /\ Hist = <<>>
  /\ \E i \in Idx(drainLog) : drainLog[i].cmd = Tick

\* C8: draining Tick leaves the history empty, the flags and the mode as they were,
\* and runs no draw pass; the history loses entries only when a Tick is drained.
C8_TickOnlyClearsHistory ==
  [][/\ (DrainTurn /\ Head(bus).cmd = Tick) =>
          /\ Hist' = <<>>
          /\ should_quit' = should_quit
          /\ should_suspend' = should_suspend
          /\ mode' = mode
          /\ drawLog' = drawLog
     /\ (Len(Hist') < Len(Hist)) => (DrainTurn /\ Head(bus).cmd = Tick)
     /\ (DrainTurn /\ Head(bus).cmd # Tick) => Hist' = Hist]_vars

C8_Witness ==
  /\ pc = "bottom"
  /\ drainLog # <<>> /\ drainLog[Len(drainLog)].cmd = Tick
  /\ should_quit
  /\ Hist = <<>>

\* the history is a key sequence the keymap of the mode binds
Bound(cfg, m, hist) ==
  \E km \in {cfg.keybindings[k] : k \in DOMAIN cfg.keybindings \cap {m}} :
    \E s \in DOMAIN km : s = hist

\* C9: a Key event whose history (the new key included) the keymap of the mode does
\* not bind, or whose mode has no keymap, makes the classification send nothing:
\* what the event puts on the bus was returned by a component's handle_events.
C9_UnboundKeySendsNothing ==
  (/\ ev[1] = "Key"
   /\ pc \in {"drain", "failed"} /\ drainLog = <<>>
   /\ failure[1] \in {"None", "handle_events"}
   /\ ~Bound(config, mode, Hist)) =>
     \A i \in Idx(sent) :
       sent[i].it = iter => (sent[i].src = "handle_events" /\ sent[i].by \in Comps)

C9_Witness ==
  /\ pc = "drain" /\ drainLog = <<>>
  /\ "TaskReport" \in DOMAIN config.keybindings
  /\ Hist = <<"x", "x">>
  /\ \A i \in Idx(sent) : sent[i].src # "classify"

\* C10: a Quit, Tick, Render or Resize Event makes the classification send exactly
\* one command, of the same tag and payload; it is drained in the same iteration and
\* given once to update of every component in registration order; draining Resize
\* changes neither flag, nor the history, nor the mode, and runs no draw pass.
C10_DirectEventForwarded ==
  /\ [](ev[1] \in {"Quit", "Tick", "Render", "Resize"} =>
          LET e == Entry(ev, "classify", 0, iter)
          IN  /\ pc \in {"drain", "bottom", "done"} => SelectSeq(sent, FromEvent) = <<e>>
              /\ pc \in {"bottom", "done"} =>
                   /\ SelectSeq(drainLog, FromEvent) = <<e>>
                   /\ \A k \in Idx(drainLog) :
                        drainLog[k] = e =>
                          /\ \A c \in Comps : updLog[(k - 1) * N + c] = <<c, k>>
                          /\ \A i \in Idx(updLog) :
                               updLog[i][2] = k => i \in ((k - 1) * N + 1)..(k * N))
  /\ [][(DrainTurn /\ Head(bus).cmd[1] = "Resize") =>
          /\ should_quit' = should_quit
          /\ should_suspend' = should_suspend
          /\ Hist' = Hist
          /\ mode' = mode
          /\ drawLog' = drawLog]_vars

C10_Witness ==
  /\ pc = "bottom"
  /\ ev = <<"Resize", 80, 24>>
  /\ \E k \in Idx(drainLog) :
       /\ drainLog[k] = Entry(Resize(80, 24), "classify", 0, iter)
       /\ \A c \in Comps : updLog[(k - 1) * N + c] = <<c, k>>

----------------------------------------------------------------------------
(* The backend's life cycle *)

\* the life-cycle calls that attempt to tear the terminal down: exit, and the Drop
\* of a backend, which the specification has tear down on a best-effort basis
Teardown(call) == call \in {"exit", "drop"}

\* the life-cycle entries that release the terminal a backend had entered
Releases(entry) == entry[1] = "drop" \/ (entry[1] \in {"suspend", "exit"} /\ entry[3])

\* the backends entered and not released after the first n life-cycle calls
EnteredAt(n) ==
  { i \in 1..(tui.inst + 1) :
      \E k \in 1..n :
        /\ tuiLog[k] = <<"enter", i, TRUE>>
        /\ \A j \in (k + 1)..n : ~(tuiLog[j][2] = i /\ Releases(tuiLog[j])) }

\* C11: when run returns an error, teardown has been attempted on every backend that
\* was created, and for the backend `tui` holds it is the last life-cycle call made,
\* after the call that failed.
C11_TeardownOnFatalError ==
  pc = "failed" =>
    /\ failure # None
    /\ \A k \in Idx(tuiLog) :
         tuiLog[k][1] = "Tui::new" /\ tuiLog[k][3] =>
           \E j \in (k + 1)..Len(tuiLog) :
             tuiLog[j][2] = tuiLog[k][2] /\ Teardown(tuiLog[j][1])
    /\ tui.last # "none" =>
         /\ tuiLog # <<>>
         /\ tuiLog[Len(tuiLog)][2] = tui.inst
         /\ Teardown(tuiLog[Len(tuiLog)][1])
    /\ failure # <<"Tui::new", 0>> => tui.last # "none"

C11_Witness ==
  /\ pc = "failed"
  /\ failure = <<"Tui::draw", 0>>
  /\ tui.inst = 2
  /\ tuiLog[Len(tuiLog)] = <<"drop", 2, TRUE>>

\* C12: a fresh backend is created only after the one before it was suspended, and
\* entered only after that; at no point of the life cycle are two backends entered;
\* and an Event is awaited from the backend `tui` holds, the one entered last, never
\* from a backend that was suspended.
C12_ReleasedBeforeReacquired ==
  /\ \A k \in Idx(tuiLog) :
       (tuiLog[k][1] \in {"Tui::new", "enter"} /\ tuiLog[k][2] > 1) =>
         \E j \in 1..(k - 1) : tuiLog[j] = <<"suspend", tuiLog[k][2] - 1, TRUE>>
  /\ \A n \in 0..Len(tuiLog) : Cardinality(EnteredAt(n)) <= 1
  /\ (pc \in {"drain", "bottom"} \/ (pc = "failed" /\ failure[1] \in {"handle_events", "update", "Tui::draw"})) =>
       /\ evFrom = tui.inst
       /\ \A k \in Idx(tuiLog) : tuiLog[k] # <<"suspend", evFrom, TRUE>>
       /\ pc # "failed" => EnteredAt(Len(tuiLog)) = {evFrom}
  /\ pc = "await" => EnteredAt(Len(tuiLog)) = {tui.inst}

C12_Witness ==
  /\ pc = "drain"
  /\ tui.inst = 2 /\ evFrom = 2
  /\ \E k \in Idx(tuiLog) : tuiLog[k] = <<"suspend", 1, TRUE>>

----------------------------------------------------------------------------
(* The flags at the loop bottom *)

\* C13: draining Resume leaves should_suspend false, whether it was true or already
\* false, so a second Resume in a row changes nothing; should_quit and the key
\* history are as they were.
C13_ResumeIdempotent ==
  [][(DrainTurn /\ Head(bus).cmd = Resume) =>
        /\ should_suspend' = FALSE
        /\ should_quit' = should_quit
        /\ Hist' = Hist
        /\ (drainLog # <<>> /\ drainLog[Len(drainLog)].cmd = Resume) =>
             should_suspend' = should_suspend]_vars

C13_Witness ==
  /\ Len(drainLog) >= 2
  /\ drainLog[Len(drainLog) - 1].cmd = Resume
  /\ drainLog[Len(drainLog)].cmd = Resume
  /\ ~should_suspend

\* C14: at the loop bottom with both flags true the suspend cycle is performed
\* (backend suspended, Resume sent, a fresh backend created and entered) and run
\* does not exit there; run exits only from a loop bottom where should_suspend is
\* false and should_quit is true.
C14_SuspendBeforeQuit ==
  /\ [][(pc = "bottom" /\ should_suspend /\ should_quit) =>
          /\ pc' \in {"await", "failed"}
          /\ pc' = "await" =>
               /\ bus' = <<Entry(Resume, "suspend", 0, iter)>>
               /\ tui' = [inst |-> tui.inst + 1, last |-> "enter"]
               /\ tuiLog' = tuiLog \o CycleLog(tui.inst, "none")
          /\ pc' = "failed" => failure'[1] \in {"suspend", "Tui::new", "enter"}]_vars
  /\ [][pc' = "done" => (pc = "bottom" /\ ~should_suspend /\ should_quit)]_vars

C14_Witness ==
  /\ pc = "done"
  /\ tui.inst = 2
  /\ drainLog # <<>> /\ IsCycleResume(drainLog[1])
  /\ \A i \in Idx(drainLog) : drainLog[i].cmd # Quit

----------------------------------------------------------------------------
(* Key sequences, Quit and start-up *)

\* the entries the classification of the last event sent
ClassSent == SelectSeq(sent, FromEvent)

\* C15: on a Key event the classification sends a command exactly when the whole
\* history since the last drained Tick, the new key included, is a sequence the
\* keymap of the mode binds, and it sends the command bound to that sequence; the
\* history keeps the keys of a match.
C15_WholeHistoryLookup ==
  (/\ ev[1] = "Key"
   /\ pc \in {"drain", "failed"} /\ drainLog = <<>>
   /\ failure[1] \in {"None", "handle_events"}) =>
     /\ Hist = keysSinceTick
     /\ Hist # <<>> /\ Hist[Len(Hist)] = ev[2]
     /\ Bound(config, mode, Hist) <=> ClassSent # <<>>
     /\ Bound(config, mode, Hist) =>
          ClassSent = <<Entry(config.keybindings[mode][Hist], "classify", 0, iter)>>
     /\ (Len(Hist) > 1 /\ Hist # <<"g", "g">>) => ClassSent = <<>>

C15_Witness ==
  /\ pc = "drain" /\ drainLog = <<>>
  /\ Hist = <<"g", "g">>
  /\ sent = <<Entry(Resume, "suspend", 0, iter - 1), Entry(Custom("gg"), "classify", 0, iter)>>

\* C16: draining Quit sets should_quit and nothing else, and the drain goes on:
\* a command drained while should_quit is true has its built-in effect; at the loop
\* bottom and at the exit every command sent in the iteration, Quit and those behind
\* it included, has been drained and given to update of every component in order.
C16_QuitCooperative ==
  /\ [][(DrainTurn /\ Head(bus).cmd = Quit) =>
          /\ should_quit'
          /\ should_suspend' = should_suspend
          /\ Hist' = Hist
          /\ mode' = mode
          /\ tui' = tui
          /\ drawLog' = drawLog
          /\ pc' \in {"drain", "failed"}]_vars
  /\ [][(DrainTurn /\ should_quit) =>
          /\ Head(bus).cmd = Suspend => should_suspend'
          /\ Head(bus).cmd = Resume => ~should_suspend'
          /\ Head(bus).cmd = Tick => Hist' = <<>>
          /\ (Head(bus).cmd = Render /\ failure' # <<"Tui::draw", 0>>) =>
               Len(drawLog') = Len(drawLog) + N
          /\ drainLog' = Append(drainLog, Head(bus))]_vars
  /\ [](pc \in {"bottom", "done"} =>
          /\ bus = <<>>
          /\ \A i \in Idx(sent) :
               /\ i \in Idx(drainLog) /\ drainLog[i] = sent[i]
               /\ \A c \in Comps : (i - 1) * N + c \in Idx(updLog)
               /\ \A c \in Comps : updLog[(i - 1) * N + c] = <<c, i>>)

C16_Witness ==
  /\ pc = "done"
  /\ \E i \in Idx(drainLog) :
       /\ drainLog[i].cmd = Quit
       /\ i + 1 = Len(drainLog)
       /\ drainLog[i + 1].src = "update" /\ drainLog[i + 1].cmd = Render
       /\ Len(drawLog) = N

\* C17: start-up makes its calls in this order: Tui::new, enter, then
\* register_command_handler of every component in registration order, then
\* register_config_handler of every component, then init of every component; the
\* first call that fails ends run, with the later calls not made, no Event awaited,
\* and no handle_events, update or draw called.
C17_StartupPhases ==
  /\ \A c \in Comps :
       /\ (2 + c <= started) => StartLog(started)[2 + c] = <<"register_command_handler", c>>
       /\ (2 + N + c <= started) =>
            StartLog(started)[2 + N + c] = <<"register_config_handler", c>>
       /\ (2 + 2 * N + c <= started) => StartLog(started)[2 + 2 * N + c] = <<"init", c>>
  /\ Len(StartLog(started)) = started /\ started <= 2 + 3 * N
  /\ pc \in {"await", "drain", "bottom", "done"} => (started = 2 + 3 * N /\ failure = None)
  /\ (pc = "failed" /\ iter = 0) => failure = StartLog(started)[started]
  /\ (pc = "start" \/ (pc = "failed" /\ failure[1] \in {"register_command_handler",
                                                       "register_config_handler", "init"})) =>
       /\ iter = 0 /\ ev = None /\ evFrom = 0
       /\ sent = <<>> /\ drainLog = <<>> /\ updLog = <<>> /\ drawLog = <<>>

C17_Witness ==
  /\ pc = "failed"
  /\ failure = <<"init", 2>>
  /\ started = 2 + 2 * N + 2

----------------------------------------------------------------------------
(* The length of a drain *)

\* C18: the drain has no bound of its own.  With components whose chain of
\* follow-ups is finite every drain ends.  With a component whose update returns a
\* command for every command, once a command is on the bus the bus is never empty
\* again: every turn of the drain sends at least the one command it took, the loop
\* bottom is never reached, no further Event is awaited, and should_quit being true
\* never leads to the exit; run leaves the drain only by returning an Err.
C18_UnboundedDrain ==
  /\ [](components # "echo" => (pc = "drain" => <>(pc # "drain")))
  /\ []((components = "echo" /\ sent # <<>>) =>
          /\ pc \in {"drain", "failed"}
          /\ pc = "drain" => bus # <<>>
          /\ pc = "failed" => failure[1] \in {"handle_events", "update", "Tui::draw"})
  /\ []((components = "echo" /\ should_quit) => pc \in {"drain", "failed"})
  /\ [][(components = "echo" /\ sent # <<>>) => iter' = iter]_vars
  /\ [][(components = "echo" /\ DrainTurn /\ pc' = "drain") => Len(bus') >= Len(bus)]_vars

C18_Witness ==
  /\ components = "echo"
  /\ pc = "drain"
  /\ Len(drainLog) = MaxTurns
  /\ should_quit
  /\ bus # <<>>

----------------------------------------------------------------------------
(* Suspend cycles and the exit *)

\* the last Suspend or Resume drained in this iteration is a Suspend
SuspendStands ==
  \E i \in Idx(drainLog) :
    /\ drainLog[i].cmd = Suspend
    /\ \A j \in (i + 1)..Len(drainLog) : drainLog[j].cmd # Resume

\* C19: the Resume a suspend cycle sent is the first command drained in the next
\* iteration, ahead of the commands of the next Event; so at a loop bottom
\* should_suspend is true exactly when a Suspend was drained in that iteration with
\* no Resume after it, every suspend cycle follows such a Suspend, and a cycle is
\* not repeated for the Suspend of an earlier iteration.
C19_CycleOncePerSuspend ==
  /\ (sent # <<>> /\ sent[1].it < iter) =>
       /\ IsCycleResume(sent[1])
       /\ sent[1].it = iter - 1
       /\ \A i \in 2..Len(sent) : sent[i].it = iter
       /\ drainLog # <<>> => drainLog[1] = sent[1]
  /\ (pc = "await" /\ should_suspend) => bus = <<Entry(Resume, "suspend", 0, iter)>>
  /\ pc = "bottom" => (should_suspend <=> SuspendStands)
  /\ (pc = "bottom" /\ should_suspend) =>
       \E i \in Idx(drainLog) : drainLog[i].cmd = Suspend /\ drainLog[i].it = iter
  /\ (pc = "await" /\ tui.inst > 1 /\ sent = <<>>) => ~should_suspend

C19_Witness ==
  /\ pc = "bottom"
  /\ tui.inst = 2
  /\ Len(drainLog) = 2
  /\ IsCycleResume(drainLog[1])
  /\ FromEvent(drainLog[2]) /\ drainLog[2].cmd = Tick
  /\ ~should_suspend

\* C20: should_quit never goes back to false, whatever is drained; once it is true
\* run ends, with Ok or with an Err, unless the backend delivers no further Event
\* while run awaits one after a suspend cycle; and after the exit nothing is awaited.
C20_QuitStandsAndExits ==
  /\ [][should_quit => should_quit']_vars
  /\ [][pc = "done" => (pc' = "done" /\ iter' = iter)]_vars
  /\ [](should_quit => <>(pc \in {"done", "failed"} \/ (pc = "await" /\ iter = MaxEvents)))
  /\ [](pc = "await" /\ should_quit => should_suspend)

C20_Witness ==
  /\ pc = "done"
  /\ should_quit
  /\ drainLog # <<>> /\ IsCycleResume(drainLog[1])
  /\ drainLog[Len(drainLog)].cmd = Resume
  /\ Len(drainLog) > 2

====
